---- MODULE Spec2Model ----
(***************************************************************************)
(* Model of server.js: the /api/estado handler with its in-memory cache,   *)
(* the concurrency queue (enqueue/runNext), the shared browser             *)
(* (getBrowser/maybeRecycleBrowser) and the scrape task (runScrape).       *)
(*                                                                         *)
(* JavaScript runs one handler at a time and a handler runs until its next *)
(* await, so every action below is the code between two awaits: the        *)
(* synchronous part of a request handler, or the continuation of one       *)
(* awaited operation up to the next one.                                   *)
(*                                                                         *)
(* Strings are sequences of one-character strings, so that toUpperCase,    *)
(* toLowerCase, trim and includes are computed and not assumed.            *)
(***************************************************************************)
EXTENDS Integers, Sequences, FiniteSets, TLC

\* ------------------------------------------------------------------ bounds
MaxRequests == 3
MaxConcurrency == 2
MaxRestartEvery == 2
MaxTTL == 2
MaxTime == 2
MaxCacheRequests == 2
MaxFields == 2

\* ----------------------------------------------------------------- strings
Lower == <<"a","b","c","d","e","f","g","h","i","j","k","l","m",
           "n","o","p","q","r","s","t","u","v","w","x","y","z">>
Upper == <<"A","B","C","D","E","F","G","H","I","J","K","L","M",
           "N","O","P","Q","R","S","T","U","V","W","X","Y","Z">>

IndexIn(c, alphabet) ==
  IF \E i \in 1..Len(alphabet) : alphabet[i] = c
  THEN CHOOSE i \in 1..Len(alphabet) : alphabet[i] = c
  ELSE 0

\* String.prototype.toUpperCase / toLowerCase, character by character
UpperChar(c) == IF IndexIn(c, Lower) > 0 THEN Upper[IndexIn(c, Lower)] ELSE c
LowerChar(c) == IF IndexIn(c, Upper) > 0 THEN Lower[IndexIn(c, Upper)] ELSE c
toUpperCase(s) == [i \in 1..Len(s) |-> UpperChar(s[i])]
toLowerCase(s) == [i \in 1..Len(s) |-> LowerChar(s[i])]

\* String.prototype.trim: drops the white space at both ends
RECURSIVE trimStart(_)
trimStart(s) == IF s # <<>> /\ Head(s) = " " THEN trimStart(Tail(s)) ELSE s
RECURSIVE trimEnd(_)
trimEnd(s) ==
  IF s # <<>> /\ s[Len(s)] = " " THEN trimEnd(SubSeq(s, 1, Len(s) - 1)) ELSE s
trim(s) == trimEnd(trimStart(s))

\* String.prototype.includes
includes(s, sub) ==
  \E i \in 0..(Len(s) - Len(sub)) : SubSeq(s, i + 1, i + Len(sub)) = sub

ESTADO == <<"e","s","t","a","d","o">>
SELLO == <<"s","e","l","l","o">>
EstadoSello == <<"E","s","t","a","d","o"," ","S","e","l","l","o">>
PatenteKey == <<"P","a","t","e","n","t","e">>

\* ----------------------------------------------------------------- records
\* A page record (a JavaScript object): its entries in insertion order, which
\* is the order Object.keys returns.
Has(d, k) == \E i \in 1..Len(d) : d[i].k = k
Get(d, k) == d[CHOOSE i \in 1..Len(d) : d[i].k = k].v
\* d[k] = v: a present key keeps its place, a new key goes last
Set(d, k, v) ==
  IF Has(d, k)
  THEN [i \in 1..Len(d) |-> IF d[i].k = k THEN [k |-> k, v |-> v] ELSE d[i]]
  ELSE Append(d, [k |-> k, v |-> v])
RECURSIVE Delete(_, _)
Delete(d, k) ==
  IF d = <<>> THEN <<>>
  ELSE IF Head(d).k = k THEN Delete(Tail(d), k)
  ELSE <<Head(d)>> \o Delete(Tail(d), k)

\* the predicate of Object.keys(datos).find(...)
IsSelloKey(k) ==
  includes(toLowerCase(k), ESTADO) /\ includes(toLowerCase(k), SELLO)

\* Object.keys(datos).find(...): the first matching key, 0 for undefined
FindSello(d) ==
  IF \E i \in 1..Len(d) : IsSelloKey(d[i].k)
  THEN CHOOSE i \in 1..Len(d) :
         IsSelloKey(d[i].k) /\ \A j \in 1..(i - 1) : ~IsSelloKey(d[j].k)
  ELSE 0

\* step 6 of runScrape: fixed key and upper-cased value for "Estado Sello"
NormalizeSello(d) ==
  IF FindSello(d) = 0 THEN d
  ELSE LET keySello == d[FindSello(d)].k
           valor == toUpperCase(trim(d[FindSello(d)].v))
           d1 == Set(d, EstadoSello, valor)
       IN IF keySello # EstadoSello THEN Delete(d1, keySello) ELSE d1

\* step 6.bis of runScrape: if (!datos['Patente']) datos['Patente'] = patente
EnsurePatente(d, p) ==
  IF ~Has(d, PatenteKey) \/ Get(d, PatenteKey) = <<>>
  THEN Set(d, PatenteKey, p)
  ELSE d

\* what runScrape returns for the record page.evaluate gave
Normalize(d, p) == EnsurePatente(NormalizeSello(d), p)

\* ------------------------------------------------------------------ inputs
\* req.query.patente as the client sends it: missing, or a plate in any case
\* and with white space around it
RawQueries == { <<>>, <<"a","1"," ">>, <<"B","2">> }

\* what page.evaluate can return: no field at all, or the seal status under a
\* label of the page (labels and values are non-empty and trimmed by add)
Pages ==
  { <<>>,
    << [k |-> <<"e","s","t","a","d","o"," ","s","e","l","l","o">>,
        v |-> <<"a","c","t","i","v","o">>] >> }

\* String(req.query.patente || '').toUpperCase().trim()
NormalizePatente(raw) == trim(toUpperCase(raw))

\* the keys the cache can ever hold
Patentes == { NormalizePatente(raw) : raw \in RawQueries } \ { <<>> }

\* cache.get(patente) === undefined
NoEntry == [has |-> FALSE, t |-> 0, data |-> <<>>]
Entry(t, d) == [has |-> TRUE, t |-> t, data |-> d]

Reqs == 1..MaxRequests
Browsers == 1..MaxRequests

\* sharedBrowser = null
NoBrowser == 0

\* the messages of the errors a task can end with: the two runScrape throws
\* itself, and whatever Playwright throws
InputNotFound == "No se encontro el input de patente"
ButtonNotFound == "No se encontro el boton Buscar"
AutomationError == "playwright"

\* what fn() returned or threw; found is history: the number of fields
\* page.evaluate returned
NoOutcome == [kind |-> "none", data |-> <<>>, err |-> "", found |-> 0]
Returned(d, n) == [kind |-> "ok", data |-> d, err |-> "", found |-> n]
Thrown(e) == [kind |-> "err", data |-> <<>>, err |-> e, found |-> 0]

\* what res.json / res.status(..).json sends for request r; plate and via
\* are history: the plate asked for, and the branch of the handler that
\* answered ("refuse", "cache" or "scrape")
Sent(r, plate, via, st, kind, d, e) ==
  [req |-> r, plate |-> plate, via |-> via, status |-> st, kind |-> kind,
   data |-> d, err |-> e]
NothingSent == Sent(0, <<>>, "none", 0, "none", <<>>, "")

VARIABLES
  CONCURRENCY,      \* process.env.CONCURRENCY
  RESTART_EVERY,    \* process.env.RESTART_EVERY
  CACHE_TTL_MS,     \* process.env.CACHE_TTL_MS
  cache,            \* Map patente -> [t, data]
  sharedBrowser,    \* the shared handle, NoBrowser for null
  useCount,
  queue,            \* the pending tasks, by request
  active,
  browserState,     \* of every browser chromium.launch can return
  now,              \* Date.now()
  nreq,             \* requests received so far; request r is the r-th
  patente,          \* per request: the normalized plate
  job,              \* per request: the task submitted, "scrape" or "debug"
  pc,               \* per request: the await its task is suspended at
  tb,               \* per request: the local `browser` of the task
  ctx,              \* per request: the task's context
  page,             \* per request: the task's page
  closing,          \* per request: the browser its recycle is closing
  okWait,           \* per request: the local okWait of the task
  datos,            \* the record of a normalization taken on its own
  normStep,         \* and how far that normalization has got
  outcome,          \* per request: what fn() returned or threw
  promise,          \* per request: the promise enqueue returned
  sent,             \* the last response sent
  completedSinceLaunch \* history: task bodies finished since the last launch

vars == <<CONCURRENCY, RESTART_EVERY, CACHE_TTL_MS, cache, sharedBrowser,
          useCount, queue, active, browserState, now, nreq, patente, job, pc,
          tb,
          ctx, page, closing, okWait, outcome, promise, sent,
          completedSinceLaunch, datos, normStep>>

config == <<CONCURRENCY, RESTART_EVERY, CACHE_TTL_MS>>
queueVars == <<queue, active>>
browserVars == <<sharedBrowser, useCount, browserState, completedSinceLaunch>>
workspaceVars == <<ctx, page, closing, okWait>>
normVars == <<datos, normStep>>

\* the server after construction
ServerInit ==
  /\ CONCURRENCY \in 1..MaxConcurrency
  /\ RESTART_EVERY \in 1..MaxRestartEvery
  /\ CACHE_TTL_MS \in 1..MaxTTL
  /\ cache = [p \in Patentes |-> NoEntry]
  /\ sharedBrowser = NoBrowser
  /\ useCount = 0
  /\ queue = <<>>
  /\ active = 0
  /\ browserState = [b \in Browsers |-> "unlaunched"]
  /\ now = 0
  /\ nreq = 0
  /\ patente = [r \in Reqs |-> <<>>]
  /\ job = [r \in Reqs |-> "none"]
  /\ pc = [r \in Reqs |-> "none"]
  /\ tb = [r \in Reqs |-> NoBrowser]
  /\ ctx = [r \in Reqs |-> "none"]
  /\ page = [r \in Reqs |-> "none"]
  /\ closing = [r \in Reqs |-> NoBrowser]
  /\ okWait = [r \in Reqs |-> FALSE]
  /\ outcome = [r \in Reqs |-> NoOutcome]
  /\ promise = [r \in Reqs |-> "none"]
  /\ sent = NothingSent
  /\ completedSinceLaunch = 0

Init ==
  /\ ServerInit
  /\ datos = <<>>
  /\ normStep = "none"

\* -------------------------------------------------------------- the queue
\* a guard that lets one task too many through: active > CONCURRENCY
BlockedOffByOne(q, a) == a > CONCURRENCY \/ Len(q) = 0

\* runNext, first line: if (active >= CONCURRENCY || queue.length === 0) return
Blocked(q, a) == a >= CONCURRENCY \/ Len(q) = 0

\* queue.pop() in place of queue.shift(): the newest task first
Popped(q) == [task |-> q[Len(q)], rest |-> SubSeq(q, 1, Len(q) - 1)]

\* queue.shift(): the task taken and the tasks left
Shifted(q) == [task |-> Head(q), rest |-> Tail(q)]

\* getBrowser up to its first await, as fn() runs it inside runNext:
\* with no shared browser the task starts a launch and waits for it,
\* otherwise it takes the shared handle as it is now
NeedsLaunch(shared) == shared = NoBrowser

\* runNext() called with queue q, active a and task positions pcs
runNext(q, a, pcs) ==
  IF Blocked(q, a)
  THEN /\ queue' = q
       /\ active' = a
       /\ pc' = pcs
       /\ UNCHANGED tb
  ELSE LET t == Shifted(q).task IN
       /\ queue' = Shifted(q).rest
       /\ active' = a + 1
       /\ IF NeedsLaunch(sharedBrowser)
          THEN /\ pc' = [pcs EXCEPT ![t] = "launch"]
               /\ tb' = tb
          ELSE /\ pc' = [pcs EXCEPT ![t] = "getBrowser"]
               /\ tb' = [tb EXCEPT ![t] = sharedBrowser]

\* ------------------------------------------------------ GET /api/estado
\* <= in place of <: an entry exactly TTL old still counts as fresh
FreshInclusive(hit, t) == hit.has /\ t - hit.t <= CACHE_TTL_MS

\* if (hit && Date.now() - hit.t < CACHE_TTL_MS)
Fresh(hit, t) == hit.has /\ t - hit.t < CACHE_TTL_MS

\* return res.status(400).json({ error: 'Patente requerida' })
Refuse(r) ==
  /\ sent' = Sent(r, <<>>, "refuse", 400, "error", <<>>, "Patente requerida")
  /\ pc' = [pc EXCEPT ![r] = "done"]
  /\ UNCHANGED <<cache, queue, active, tb, promise>>

\* a hit that also renews the entry (a sliding TTL)
AnswerFromCacheTouching(r, p) ==
  /\ sent' = Sent(r, p, "cache", 200, "data", cache[p].data, "")
  /\ pc' = [pc EXCEPT ![r] = "done"]
  /\ cache' = [cache EXCEPT ![p] = Entry(now, cache[p].data)]
  /\ UNCHANGED <<queue, active, tb, promise>>

\* return res.json(hit.data)
AnswerFromCache(r, p) ==
  /\ sent' = Sent(r, p, "cache", 200, "data", cache[p].data, "")
  /\ pc' = [pc EXCEPT ![r] = "done"]
  /\ UNCHANGED <<cache, queue, active, tb, promise>>

\* an enqueue that pushes the task and forgets to call runNext
SubmitScrapeNoDispatch(r) ==
  /\ promise' = [promise EXCEPT ![r] = "pending"]
  /\ queue' = Append(queue, r)
  /\ pc' = [pc EXCEPT ![r] = "queued"]
  /\ UNCHANGED <<sent, cache, active, tb>>

\* runScrape(patente, debug): return enqueue(...), which pushes the task and
\* calls runNext before the handler suspends at its await
SubmitScrape(r) ==
  /\ promise' = [promise EXCEPT ![r] = "pending"]
  /\ runNext(Append(queue, r), active, [pc EXCEPT ![r] = "queued"])
  /\ UNCHANGED <<sent, cache>>

\* The handler up to its first await: the request is refused, answered from
\* the cache, or its scrape is submitted.
Arrive(raw) ==
  /\ nreq < MaxRequests
  /\ LET r == nreq + 1
         p == NormalizePatente(raw)
     IN /\ nreq' = r
        /\ IF p = <<>> THEN Refuse(r) /\ UNCHANGED <<patente, job>>
           ELSE IF Fresh(cache[p], now)
           THEN AnswerFromCache(r, p) /\ UNCHANGED <<patente, job>>
           ELSE /\ SubmitScrape(r)
                /\ patente' = [patente EXCEPT ![r] = p]
                /\ job' = [job EXCEPT ![r] = "scrape"]
  /\ UNCHANGED <<config, normVars, browserVars, workspaceVars, now, outcome>>

\* GET /api/debug up to its first await: the request is refused, or
\* runDebugHTML submits its task through the same enqueue
ArriveDebug(raw) ==
  /\ nreq < MaxRequests
  /\ LET r == nreq + 1
         p == NormalizePatente(raw)
     IN /\ nreq' = r
        /\ IF p = <<>>
           THEN /\ sent' = Sent(r, <<>>, "refuse", 400, "error", <<>>,
                                "patente requerida")
                /\ pc' = [pc EXCEPT ![r] = "done"]
                /\ UNCHANGED <<cache, queue, active, tb, promise, patente, job>>
           ELSE /\ SubmitScrape(r)
                /\ patente' = [patente EXCEPT ![r] = p]
                /\ job' = [job EXCEPT ![r] = "debug"]
  /\ UNCHANGED <<config, normVars, browserVars, workspaceVars, now, outcome>>

\* Date.now() moves on
Tick ==
  /\ now < MaxTime
  /\ now' = now + 1
  /\ UNCHANGED <<config, normVars, cache, queueVars, browserVars, workspaceVars, nreq,
                 patente, job, pc, tb, outcome, promise, sent>>

\* ------------------------------- the task of runScrape and of runDebugHTML
\* an awaited browser operation can succeed only on a browser that is running
Alive(b) == b # NoBrowser /\ browserState[b] = "live"

\* fn() is over with outcome o
BodyDone(r, o) ==
  /\ outcome' = [outcome EXCEPT ![r] = o]
  /\ pc' = [pc EXCEPT ![r] = "bodyDone"]
  /\ completedSinceLaunch' = completedSinceLaunch + 1

\* fn() throws before its try block: no finally runs
EscapeBody(r, e) == BodyDone(r, Thrown(e))

\* fn() leaves its try block with o: the finally block starts with page.close()
EnterFinally(r, o) ==
  /\ outcome' = [outcome EXCEPT ![r] = o]
  /\ pc' = [pc EXCEPT ![r] = "closePage"]

\* chromium.launch() settles; getBrowser stores the handle and resets useCount,
\* and the task goes on to browser.newContext()
LaunchDone(r, ok) ==
  /\ pc[r] = "launch"
  /\ IF ok
     THEN LET b == 1 + Cardinality({x \in Browsers : browserState[x] # "unlaunched"})
          IN /\ browserState' = [browserState EXCEPT ![b] = "live"]
             /\ sharedBrowser' = b
             /\ useCount' = 0
             /\ completedSinceLaunch' = 0
             /\ tb' = [tb EXCEPT ![r] = b]
             /\ pc' = [pc EXCEPT ![r] = "newContext"]
             /\ UNCHANGED outcome
     ELSE /\ EscapeBody(r, AutomationError)
          /\ UNCHANGED <<browserState, sharedBrowser, useCount, tb>>
  /\ UNCHANGED <<config, normVars, cache, queueVars, workspaceVars, now, nreq, patente, job,
                 promise, sent>>

\* await getBrowser() with a browser already shared: on to browser.newContext()
GotBrowser(r) ==
  /\ pc[r] = "getBrowser"
  /\ pc' = [pc EXCEPT ![r] = "newContext"]
  /\ UNCHANGED <<config, normVars, cache, queueVars, browserVars, workspaceVars, now,
                 nreq, patente, job, tb, outcome, promise, sent>>

\* await browser.newContext(...)
NewContextDone(r, ok) ==
  /\ pc[r] = "newContext"
  /\ ok => Alive(tb[r])
  /\ IF ok
     THEN /\ ctx' = [ctx EXCEPT ![r] = "open"]
          /\ pc' = [pc EXCEPT ![r] = "newPage"]
          /\ UNCHANGED <<outcome, completedSinceLaunch>>
     ELSE /\ EscapeBody(r, AutomationError)
          /\ UNCHANGED ctx
  /\ UNCHANGED <<config, normVars, cache, queueVars, sharedBrowser, useCount,
                 browserState, page, closing, okWait, now, nreq, patente, job, tb,
                 promise,
                 sent>>

\* await ctx.newPage(); runDebugHTML installs no route and enters its try
\* block right after it
NewPageDone(r, ok) ==
  /\ pc[r] = "newPage"
  /\ ok => Alive(tb[r])
  /\ IF ok
     THEN /\ page' = [page EXCEPT ![r] = "open"]
          /\ pc' = [pc EXCEPT ![r] =
                      IF job[r] = "debug" THEN "goto" ELSE "route"]
          /\ UNCHANGED <<outcome, completedSinceLaunch>>
     ELSE /\ EscapeBody(r, AutomationError)
          /\ UNCHANGED page
  /\ UNCHANGED <<config, normVars, cache, queueVars, sharedBrowser, useCount,
                 browserState, ctx, closing, okWait, now, nreq, patente, job, tb,
                 promise,
                 sent>>

\* await page.route(...); then the try block begins with page.goto
RouteDone(r, ok) ==
  /\ pc[r] = "route"
  /\ ok => Alive(tb[r])
  /\ IF ok
     THEN /\ pc' = [pc EXCEPT ![r] = "goto"]
          /\ UNCHANGED <<outcome, completedSinceLaunch>>
     ELSE EscapeBody(r, AutomationError)
  /\ UNCHANGED <<config, normVars, cache, queueVars, sharedBrowser, useCount,
                 browserState, workspaceVars, now, nreq, patente, job, tb, promise,
                 sent>>

\* 1) await page.goto(TARGET_URL, ...)
GotoDone(r, ok) ==
  /\ pc[r] = "goto"
  /\ ok => Alive(tb[r])
  /\ IF ok
     THEN /\ pc' = [pc EXCEPT ![r] = "input"]
          /\ UNCHANGED outcome
     ELSE EnterFinally(r, Thrown(AutomationError))
  /\ UNCHANGED <<config, normVars, cache, queueVars, browserVars, workspaceVars, now,
                 nreq, patente, job, tb, promise, sent>>

\* the loop without `if (!okInput) throw ...`: the task goes on to the button
InputDoneNoThrow(r, found) ==
  /\ pc[r] = "input"
  /\ found => Alive(tb[r])
  /\ pc' = [pc EXCEPT ![r] = "button"]
  /\ UNCHANGED <<config, normVars, cache, queueVars, browserVars, workspaceVars, now,
                 nreq, patente, job, tb, outcome, promise, sent>>

\* 2) the input selectors: one resolves and is filled, or none does, which
\* runScrape throws on and runDebugHTML passes over
InputDone(r, found) ==
  /\ pc[r] = "input"
  /\ found => Alive(tb[r])
  /\ IF found \/ job[r] = "debug"
     THEN /\ pc' = [pc EXCEPT ![r] = "button"]
          /\ UNCHANGED outcome
     ELSE EnterFinally(r, Thrown(InputNotFound))
  /\ UNCHANGED <<config, normVars, cache, queueVars, browserVars, workspaceVars, now,
                 nreq, patente, job, tb, promise, sent>>

\* 2) page.$(sel) or el.fill(patente) rejects: the error leaves the try block
InputThrows(r) ==
  /\ pc[r] = "input"
  /\ EnterFinally(r, Thrown(AutomationError))
  /\ UNCHANGED <<config, normVars, cache, queueVars, browserVars, workspaceVars, now,
                 nreq, patente, job, tb, promise, sent>>

\* 3) the button selectors: one resolves and is clicked, or none does, which
\* runScrape throws on and runDebugHTML passes over
ButtonDone(r, found) ==
  /\ pc[r] = "button"
  /\ found => Alive(tb[r])
  /\ IF found \/ job[r] = "debug"
     THEN /\ pc' = [pc EXCEPT ![r] = "idle"]
          /\ UNCHANGED outcome
     ELSE EnterFinally(r, Thrown(ButtonNotFound))
  /\ UNCHANGED <<config, normVars, cache, queueVars, browserVars, workspaceVars, now,
                 nreq, patente, job, tb, promise, sent>>

\* 3) page.$(sel) or el.click() rejects: the error leaves the try block
ButtonThrows(r) ==
  /\ pc[r] = "button"
  /\ EnterFinally(r, Thrown(AutomationError))
  /\ UNCHANGED <<config, normVars, cache, queueVars, browserVars, workspaceVars, now,
                 nreq, patente, job, tb, promise, sent>>

\* 4) the candidate selectors of a results indicator, in the order of the code
WaitSelectors ==
  << "text=Estado Sello", ".ant-descriptions", ".table", ".card",
     ".resultados", ".resultado" >>

\* the results indicators a page can show: none, the first candidate, or
\* two later ones
ResultsPresent ==
  { {}, {WaitSelectors[1]}, {WaitSelectors[3], WaitSelectors[4]} }

\* the loop of 4) without its break: every candidate is waited for
RECURSIVE waitLoopNoBreak(_, _, _)
waitLoopNoBreak(sels, present, done) ==
  IF sels = <<>> THEN done
  ELSE waitLoopNoBreak(Tail(sels), present,
         [tried |-> Append(done.tried, Head(sels)),
          okWait |-> done.okWait \/ Head(sels) \in present])

\* the loop of 4) over the candidates sels, when the selectors of `present`
\* resolve and waitForSelector times out on the others: the candidates
\* waited for, in order, and okWait
RECURSIVE waitLoop(_, _, _)
waitLoop(sels, present, done) ==
  IF sels = <<>> THEN done
  ELSE IF Head(sels) \in present
  THEN [tried |-> Append(done.tried, Head(sels)), okWait |-> TRUE]
  ELSE waitLoop(Tail(sels), present,
         [tried |-> Append(done.tried, Head(sels)), okWait |-> done.okWait])

\* let okWait = false, no candidate waited for yet
NoWait == [tried |-> <<>>, okWait |-> FALSE]

\* 3.1) await page.waitForLoadState('networkidle', ...).catch(()=>{}): the
\* wait settles (idle) or times out, and the task goes on either way
IdleDone(r, idle) ==
  /\ pc[r] = "idle"
  /\ idle => Alive(tb[r])
  /\ pc' = [pc EXCEPT ![r] = "await"]
  /\ UNCHANGED <<config, normVars, cache, queueVars, browserVars, workspaceVars, now,
                 nreq, patente, job, tb, outcome, promise, sent>>

\* 4) the loop over the candidates; then, with no candidate resolved,
\* page.waitForTimeout(2000), which is awaited outside any catch: it resolves
\* (pauseOk) or its rejection leaves the try block. runDebugHTML has no loop,
\* only its page.waitForTimeout(800).
AwaitDone(r, present, pauseOk) ==
  /\ pc[r] = "await"
  /\ present # {} => Alive(tb[r]) /\ job[r] = "scrape"
  /\ LET w == waitLoop(WaitSelectors, present, NoWait) IN
     IF ~w.okWait /\ ~pauseOk
     THEN /\ EnterFinally(r, Thrown(AutomationError))
          /\ UNCHANGED okWait
     ELSE /\ (~w.okWait) => Alive(tb[r])
          /\ pc' = [pc EXCEPT ![r] = "extract"]
          /\ okWait' = [okWait EXCEPT ![r] = w.okWait]
          /\ UNCHANGED outcome
  /\ UNCHANGED <<config, normVars, cache, queueVars, browserVars, ctx, page, closing,
                 now, nreq, patente, job, tb, promise, sent>>

\* 5) to 7) await page.evaluate(...), then the record is normalized and
\* returned; runDebugHTML returns page.content(), the page as it is
ExtractDone(r, ok, raw) ==
  /\ pc[r] = "extract"
  /\ ok => Alive(tb[r])
  /\ IF ~ok THEN EnterFinally(r, Thrown(AutomationError))
     ELSE IF job[r] = "debug" THEN EnterFinally(r, Returned(raw, Len(raw)))
     ELSE EnterFinally(r, Returned(Normalize(raw, patente[r]), Len(raw)))
  /\ okWait' = [okWait EXCEPT ![r] = FALSE]
  /\ UNCHANGED <<config, normVars, cache, queueVars, browserVars, ctx, page, closing,
                 now, nreq, patente, job, tb, promise, sent>>

\* a cleanup without its try/catch: a close that rejects replaces the outcome
AfterCleanupRethrown(o, ok) == IF ok THEN o ELSE Thrown(AutomationError)

\* try { await x.close(); } catch {}: the outcome fn() left its try block with
\* stays what it was, whether the close resolved (ok) or rejected
AfterCleanup(o, ok) == o

\* the page after `try { await page.close(); } catch {}`
AfterClose(ok) == IF ok THEN "closed" ELSE "closeFailed"

\* finally: try { await page.close(); } catch {}
ClosePageDone(r, ok) ==
  /\ pc[r] = "closePage"
  /\ page' = [page EXCEPT ![r] = AfterClose(ok)]
  /\ outcome' = [outcome EXCEPT ![r] = AfterCleanup(outcome[r], ok)]
  /\ pc' = [pc EXCEPT ![r] = "closeCtx"]
  /\ UNCHANGED <<config, normVars, cache, queueVars, browserVars, ctx, closing, okWait,
                 now, nreq, patente, job, tb, promise, sent>>

\* maybeRecycleBrowser after useCount++: if (useCount >= RESTART_EVERY)
RecycleDue(n) == n >= RESTART_EVERY

\* finally: try { await ctx.close(); } catch {}, then maybeRecycleBrowser up to
\* its await: useCount++, and when the recycle is due sharedBrowser?.close();
\* when it is not due fn() is over. Whether ctx.close() resolved or rejected
\* makes no difference to the code: from here on "closed" is a close
\* attempted, of the context and of the page in it.
CloseCtxDone(r, ok) ==
  /\ pc[r] = "closeCtx"
  /\ ctx' = [ctx EXCEPT ![r] = "closed"]
  /\ page' = [page EXCEPT ![r] = "closed"]
  /\ useCount' = useCount + 1
  /\ IF RecycleDue(useCount + 1)
     THEN /\ closing' = [closing EXCEPT ![r] = sharedBrowser]
          /\ browserState' =
               IF sharedBrowser # NoBrowser
               THEN [browserState EXCEPT ![sharedBrowser] = "closing"]
               ELSE browserState
          /\ outcome' = [outcome EXCEPT ![r] = AfterCleanup(outcome[r], ok)]
          /\ pc' = [pc EXCEPT ![r] = "recycle"]
          /\ UNCHANGED completedSinceLaunch
     ELSE /\ BodyDone(r, AfterCleanup(outcome[r], ok))
          /\ UNCHANGED <<closing, browserState>>
  /\ UNCHANGED <<config, normVars, cache, queueVars, sharedBrowser, okWait, now, nreq,
                 patente, job, tb, promise, sent>>

\* maybeRecycleBrowser after its await, whether close() resolved or rejected
\* ("closed" is a close attempted): sharedBrowser = null; useCount = 0; then
\* fn() is over
RecycleDone(r, ok) ==
  /\ pc[r] = "recycle"
  /\ browserState' =
       IF closing[r] # NoBrowser
       THEN [browserState EXCEPT ![closing[r]] = "closed"]
       ELSE browserState
  /\ sharedBrowser' = NoBrowser
  /\ useCount' = 0
  /\ BodyDone(r, AfterCleanup(outcome[r], ok))
  /\ UNCHANGED <<config, normVars, cache, queueVars, workspaceVars, now, nreq, patente, job,
                 tb, promise, sent>>

\* ------------------------------------------- after the task: the microtasks
\* The reactions to fn()'s promise run in a fixed order. fn() resolved:
\* .then(resolve) settles the promise of enqueue, the handler resumes and
\* answers, and the finally callback runs after it. fn() rejected: the
\* rejection passes .then, .catch(reject) settles the promise of enqueue,
\* the finally callback runs, and the handler's catch answers after it.

\* .catch(resolve) in place of .catch(reject)
SettledAsResolved(o) == "resolved"

\* fn().then(resolve).catch(reject): how the promise of enqueue settles
SettledAs(o) == IF o.kind = "ok" THEN "resolved" ELSE "rejected"

\* the first reaction: the promise of enqueue settles; the frame of fn() and
\* its locals (browser, ctx, page) are gone
Settle(r) ==
  /\ pc[r] = "bodyDone"
  /\ promise' = [promise EXCEPT ![r] = SettledAs(outcome[r])]
  /\ pc' = [pc EXCEPT ![r] = "settled"]
  /\ tb' = [tb EXCEPT ![r] = NoBrowser]
  /\ ctx' = [ctx EXCEPT ![r] = "none"]
  /\ page' = [page EXCEPT ![r] = "none"]
  /\ closing' = [closing EXCEPT ![r] = NoBrowser]
  /\ UNCHANGED <<config, normVars, cache, queueVars, browserVars, okWait, now, nreq,
                 patente, job, outcome, sent>>

\* a finally callback that forgets active--
ReleasedNot(a) == a

\* active-- in the finally callback of runNext
Released(a) == a - 1

\* .finally(() => { active--; runNext(); })
Finally(r) ==
  /\ \/ pc[r] = "settled" /\ promise[r] = "rejected"
     \/ pc[r] = "answered"
  /\ runNext(queue, Released(active),
             [pc EXCEPT ![r] = IF pc[r] = "settled" THEN "released" ELSE "done"])
  /\ UNCHANGED <<config, normVars, cache, browserVars, workspaceVars, now, nreq,
                 patente, job, outcome, promise, sent>>

\* cache.set moved out of the try block: it stores whatever the scrape gave
CacheAfterAlways(c, p, o, t) == [c EXCEPT ![p] = Entry(t, o.data)]

\* the cache after the handler has the outcome o of its scrape at time t:
\* cache.set(patente, { t: Date.now(), data }) unless it threw or data is empty
CacheAfter(c, p, o, t) ==
  IF o.kind = "ok" /\ Len(o.data) # 0
  THEN [c EXCEPT ![p] = Entry(t, o.data)]
  ELSE c

\* what the handler sends for request r once `await runScrape(...)` settled
Response(r, p, o) ==
  IF o.kind = "err" THEN Sent(r, p, "scrape", 500, "error", <<>>, o.err)
  ELSE IF Len(o.data) = 0
  THEN Sent(r, p, "scrape", 200, "nodata", <<[k |-> PatenteKey, v |-> p]>>, "")
  ELSE Sent(r, p, "scrape", 200, "data", o.data, "")

\* GET /api/debug after `await runDebugHTML(patente)`: the HTML, or 500 with
\* the message
DebugResponse(r, p, o) ==
  IF o.kind = "err" THEN Sent(r, p, "debug", 500, "error", <<>>, o.err)
  ELSE Sent(r, p, "debug", 200, "html", o.data, "")

\* the handler after `await runScrape(patente, debug)` or, for GET /api/debug,
\* after `await runDebugHTML(patente)`; it then ends, and its locals with it
Respond(r) ==
  /\ \/ pc[r] = "settled" /\ promise[r] = "resolved"
     \/ pc[r] = "released"
  /\ IF job[r] = "debug"
     THEN /\ sent' = DebugResponse(r, patente[r], outcome[r])
          /\ UNCHANGED cache
     ELSE /\ cache' = CacheAfter(cache, patente[r], outcome[r], now)
          /\ sent' = Response(r, patente[r], outcome[r])
  /\ pc' = [pc EXCEPT ![r] = IF pc[r] = "settled" THEN "answered" ELSE "done"]
  /\ outcome' = [outcome EXCEPT ![r] = NoOutcome]
  /\ patente' = [patente EXCEPT ![r] = <<>>]
  /\ job' = [job EXCEPT ![r] = "none"]
  /\ promise' = [promise EXCEPT ![r] = "none"]
  /\ UNCHANGED <<config, normVars, queueVars, browserVars, workspaceVars, now, nreq,
                 tb>>

\* ------------------------------------------------------- specifications
\* a step of the task of request r
TaskStep(r) ==
  \/ \E ok \in BOOLEAN : LaunchDone(r, ok)
  \/ GotBrowser(r)
  \/ \E ok \in BOOLEAN : NewContextDone(r, ok)
  \/ \E ok \in BOOLEAN : NewPageDone(r, ok)
  \/ \E ok \in BOOLEAN : RouteDone(r, ok)
  \/ \E ok \in BOOLEAN : GotoDone(r, ok)
  \/ \E found \in BOOLEAN : InputDone(r, found)
  \/ InputThrows(r)
  \/ \E found \in BOOLEAN : ButtonDone(r, found)
  \/ ButtonThrows(r)
  \/ \E idle \in BOOLEAN : IdleDone(r, idle)
  \/ \E present \in ResultsPresent, pauseOk \in BOOLEAN :
       AwaitDone(r, present, pauseOk)
  \/ \E ok \in BOOLEAN, raw \in Pages : ExtractDone(r, ok, raw)
  \/ \E ok \in BOOLEAN : ClosePageDone(r, ok)
  \/ \E ok \in BOOLEAN : CloseCtxDone(r, ok)
  \/ \E ok \in BOOLEAN : RecycleDone(r, ok)

\* a microtask after the task of request r
AfterTask(r) == Settle(r) \/ Finally(r) \/ Respond(r)

\* the server receiving up to n requests with the queries of Q
Serve(Q, n) ==
  \/ \E raw \in Q : nreq < n /\ Arrive(raw)
  \/ \E r \in Reqs : TaskStep(r)
  \/ \E r \in Reqs : AfterTask(r)

\* the server receiving up to n requests to /api/debug with the queries of Q
ServeDebug(Q, n) == \E raw \in Q : nreq < n /\ ArriveDebug(raw)

Next ==
  Serve(RawQueries, MaxRequests) \/ ServeDebug(RawQueries, MaxRequests) \/ Tick

\* The server under every configuration, query and clock of the bounds.
Spec == Init /\ [][Next]_vars

\* The queue and the browser read neither the clock nor the plate: the server
\* under every CONCURRENCY and RESTART_EVERY, with the clock standing still
\* and requests without a plate or for one plate.
OnePlate == { <<>>, <<"B","2">> }
InitNoClock == Init /\ CACHE_TTL_MS = MaxTTL
NextNoClock == Serve(OnePlate, MaxRequests)
SpecNoClock == InitNoClock /\ [][NextNoClock]_vars

\* The cache reads the clock: the server under every CACHE_TTL_MS with the
\* clock running, one task at a time, the longest recycle period and up to
\* MaxCacheRequests requests.
InitCache == Init /\ CONCURRENCY = 1 /\ RESTART_EVERY = MaxRestartEvery
NextCache == Serve(RawQueries, MaxCacheRequests) \/ Tick
SpecCache == InitCache /\ [][NextCache]_vars

\* -------------------------------------- the normalization on its own
\* Steps 6 and 6.bis of runScrape are a function of the record page.evaluate
\* returned and of the plate. Here that function runs on its own, on every
\* record of up to MaxFields fields with these labels and values.
SealLabels ==
  { <<"e","s","t","a","d","o"," ","s","e","l","l","o">>,
    <<"S","e","l","l","o"," ","e","s","t","a","d","o">>,
    EstadoSello }
FieldLabels == SealLabels \cup { PatenteKey }
FieldValues ==
  { <<"a","c","t","i","v","o">>, <<"A","C","T","I","V","O">>,
    <<"b","l","o","q","u","e","a","d","o">> }
Fields == [k : FieldLabels, v : FieldValues]
\* the keys of an object are distinct
Records ==
  { d \in UNION { [1..n -> Fields] : n \in 0..MaxFields } :
      \A i, j \in 1..Len(d) : d[i].k = d[j].k => i = j }

InitNormalize ==
  /\ ServerInit
  /\ CONCURRENCY = 1 /\ RESTART_EVERY = 1 /\ CACHE_TTL_MS = 1
  /\ datos \in Records
  /\ normStep = "evaluated"

\* 6) the seal status gets its fixed key and its value in upper case
SelloStep ==
  /\ normStep = "evaluated"
  /\ datos' = NormalizeSello(datos)
  /\ normStep' = "sello"
  /\ UNCHANGED <<config, cache, queueVars, browserVars, workspaceVars, now,
                 nreq, patente, job, pc, tb, outcome, promise, sent>>

\* 6.bis) and 7) the plate is filled in and the record returned
PatenteStep(p) ==
  /\ normStep = "sello"
  /\ datos' = EnsurePatente(datos, p)
  /\ normStep' = "returned"
  /\ UNCHANGED <<config, cache, queueVars, browserVars, workspaceVars, now,
                 nreq, patente, job, pc, tb, outcome, promise, sent>>

NextNormalize == SelloStep \/ \E p \in Patentes : PatenteStep(p)
SpecNormalize == InitNormalize /\ [][NextNormalize]_vars

\* Both routes: the server with the clock standing still, under every
\* CONCURRENCY and the longest recycle period, with up to MaxCacheRequests
\* requests to /api/estado and /api/debug.
InitDebug == InitNoClock /\ RESTART_EVERY = MaxRestartEvery
NextDebug ==
  Serve(OnePlate, MaxCacheRequests) \/ ServeDebug(OnePlate, MaxCacheRequests)
SpecDebug == InitDebug /\ [][NextDebug]_vars

\* ------------------------------------------------------------- properties
TypeOK ==
  /\ active \in 0..MaxConcurrency
  /\ sharedBrowser \in Browsers \cup {NoBrowser}
  /\ useCount \in 0..(MaxRequests + 1)
  /\ now \in 0..MaxTime
  /\ nreq \in 0..MaxRequests

\* the positions of a task inside fn(): started by runNext, body not finished
BodyPcs == {"launch", "getBrowser", "newContext", "newPage", "route", "goto",
            "input", "button", "idle", "await", "extract", "closePage",
            "closeCtx", "recycle"}
InBody(r) == pc[r] \in BodyPcs
\* the positions in which runNext has just started the task
JustStarted(r) == pc[r] \in {"launch", "getBrowser"}

\* C1: the tasks started by runNext and not yet finished are never more than
\* CONCURRENCY, and 0 <= active <= CONCURRENCY in every reachable state.
C1_ActiveBounded ==
  /\ 0 <= active
  /\ active <= CONCURRENCY
  /\ Cardinality({r \in Reqs : InBody(r)}) <= CONCURRENCY

\* more tasks submitted than CONCURRENCY: every slot taken and a task waiting
C1_Witness ==
  /\ CONCURRENCY = 2
  /\ active = CONCURRENCY
  /\ Cardinality({r \in Reqs : InBody(r)}) = 2
  /\ Len(queue) > 0

\* C3: tasks are started in submission order (requests are numbered in the
\* order they are submitted): whenever runNext starts a task, no task
\* submitted before it is left waiting in the queue.
C3_FifoDispatch ==
  [][\A r \in Reqs :
       (pc[r] \in {"none", "queued"} /\ JustStarted(r)')
         => \A a \in Reqs : a < r => pc'[a] # "queued"]_vars

\* with one slot: the task of the first request is over and gave its slot
\* back, the second was started and the third still waits behind it
C3_Witness ==
  /\ CONCURRENCY = 1
  /\ pc[1] = "released"
  /\ JustStarted(2)
  /\ queue = <<3>>

\* C4: a failing task fails only itself. When fn() is over, the promise of
\* its own request settles, rejected exactly when fn() threw, and no other
\* request's promise or position changes; the finally callback after a
\* rejection gives the slot back as after a success (active - 1) and runs the
\* dispatcher, which starts the head of the queue.
C4_FailureIsolated ==
  [][\A r \in Reqs :
       /\ (pc[r] = "bodyDone" /\ pc'[r] = "settled")
            => /\ promise'[r] =
                    (IF outcome[r].kind = "err" THEN "rejected" ELSE "resolved")
               /\ \A s \in Reqs \ {r} :
                    promise'[s] = promise[s] /\ pc'[s] = pc[s]
                      /\ outcome'[s] = outcome[s]
       /\ (pc[r] = "settled" /\ pc'[r] = "released")
            => IF queue = <<>>
               THEN active' = active - 1 /\ queue' = queue
               ELSE /\ active' = active
                    /\ queue' = Tail(queue)
                    /\ pc'[Head(queue)] \in {"launch", "getBrowser"}]_vars

\* a task failed and gave its slot back, and another one's promise resolved
C4_Witness ==
  \E r, s \in Reqs :
    /\ r # s
    /\ pc[r] = "released" /\ promise[r] = "rejected"
    /\ promise[s] = "resolved"

\* Every awaited browser operation settles and every microtask runs: the
\* steps of a started task and the reactions after it are not put off for ever.
Fairness ==
  \A r \in Reqs : WF_vars(TaskStep(r)) /\ WF_vars(AfterTask(r))
\* The server without the clock and with the longest recycle period, under
\* that fairness.
InitFair == InitNoClock /\ RESTART_EVERY = MaxRestartEvery
FairSpec == InitFair /\ [][NextNoClock]_vars /\ Fairness

\* C2: when every started task body finishes, every promise enqueue returned
\* settles: no submitted task stays in the queue for ever.
C2_AllSettle == \A r \in Reqs : []<>(promise[r] # "pending")

\* more tasks than slots were submitted, and the last of them has settled
C2_Witness ==
  /\ CONCURRENCY < MaxRequests
  /\ pc[MaxRequests] = "settled"
  /\ \A r \in Reqs : r < MaxRequests => pc[r] \in {"released", "answered"}

\* the browsers launched and not yet closed
LiveBrowsers == {b \in Browsers : browserState[b] \in {"live", "closing"}}

\* C5: at most one browser is launched and not yet closed, under every
\* CONCURRENCY >= 1.
C5_OneBrowser == Cardinality(LiveBrowsers) <= 1

\* C6: once RESTART_EVERY tasks have completed since the last launch the
\* shared browser is closed and the handle is null, so that the next task
\* launches a new one; and the tasks that run before that all use the
\* shared browser.
C6_RecycleAtThreshold ==
  /\ ((\A r \in Reqs : ~InBody(r)) /\ completedSinceLaunch >= RESTART_EVERY)
       => sharedBrowser = NoBrowser
  /\ \A r \in Reqs :
       (InBody(r) /\ tb[r] # NoBrowser /\ sharedBrowser # NoBrowser
          /\ pc[r] # "recycle")
         => tb[r] = sharedBrowser

\* C7: a request for a plate whose entry was stored at time t is answered
\* with the stored record while now - t < CACHE_TTL_MS, and from
\* now - t >= CACHE_TTL_MS on it is not answered from the entry but submits a
\* fresh scrape; the entry a successful scrape stores holds the record it
\* answered with and the time of the store.
C7_CacheTTL ==
  [][/\ \A raw \in RawQueries :
          LET p == NormalizePatente(raw)
              r == nreq + 1
          IN (Arrive(raw) /\ p # <<>> /\ cache[p].has)
               => IF now - cache[p].t < CACHE_TTL_MS
                  THEN sent' = Sent(r, p, "cache", 200, "data",
                                    cache[p].data, "")
                  ELSE /\ sent' = sent
                       /\ promise'[r] = "pending"
                       /\ pc'[r] \in {"queued", "launch", "getBrowser"}
     /\ \A r \in Reqs :
          (Respond(r) /\ outcome[r].kind = "ok")
            => /\ cache'[patente[r]] = Entry(now, outcome[r].data)
               /\ sent'.data = outcome[r].data]_vars

\* the last request was answered from an entry older than 0 and younger than
\* the TTL
C7_Witness ==
  /\ sent.via = "cache"
  /\ sent.req = nreq
  /\ cache[sent.plate].has
  /\ cache[sent.plate].data = sent.data
  /\ 0 < now - cache[sent.plate].t
  /\ now - cache[sent.plate].t < CACHE_TTL_MS

\* C8: a request answered from a fresh entry submits no task and leaves the
\* queue, active, useCount, the shared browser handle and the cache as they
\* were.
C8_HitFrame ==
  [][\A raw \in RawQueries :
       LET p == NormalizePatente(raw)
           r == nreq + 1
       IN (Arrive(raw) /\ p # <<>> /\ cache[p].has
             /\ now - cache[p].t < CACHE_TTL_MS)
            => /\ UNCHANGED <<queue, active, useCount, sharedBrowser, cache>>
               /\ promise'[r] = "none"
               /\ pc'[r] = "done"]_vars

\* a request was answered from the cache, with a browser shared and counted
\* and the task that stored the entry still holding its slot
C8_Witness ==
  /\ sent.via = "cache"
  /\ sent.req = nreq
  /\ active = 1
  /\ sharedBrowser # NoBrowser
  /\ useCount = 1

\* C9: when the scrape of a request throws, the handler answers 500 with the
\* error and no record, leaves the cache as it was, submits nothing again,
\* and the request is over; a request that is over stays over.
C9_FailureSurfaces ==
  [][/\ \A r \in Reqs :
          (Respond(r) /\ outcome[r].kind = "err")
            => /\ sent' = Sent(r, patente[r], "scrape", 500, "error", <<>>,
                               outcome[r].err)
               /\ cache' = cache
               /\ queue' = queue
               /\ pc'[r] = "done"
     /\ \A r \in Reqs : pc[r] = "done" => pc'[r] = "done"]_vars

\* a scrape failed for a plate whose older entry is still in the cache
C9_Witness ==
  /\ sent.via = "scrape"
  /\ sent.status = 500
  /\ sent.data = <<>>
  /\ cache[sent.plate].has

\* C10: when page.evaluate returns no field, the handler answers 200 with
\* the "no data" body, and the cache is left as it was.
C10_EmptyExtraction ==
  [][\A r \in Reqs :
       (Respond(r) /\ outcome[r].kind = "ok" /\ outcome[r].found = 0)
         => /\ sent'.status = 200
            /\ sent'.kind = "nodata"
            /\ cache' = cache]_vars

\* C11: the steps of a scrape task come in the order Load, LocateInput, Submit,
\* AwaitResult, Extract, each entered only from the one before it. When no
\* input selector resolves the task leaves LocateInput with the
\* input-not-found error and goes straight to its cleanup: no click, wait or
\* extraction follows, and the answer carries the error and no record. When no
\* button selector resolves it leaves Submit with the button-not-found error
\* in the same way, and no wait or extraction follows.
C11_Sequencer ==
  [][\A r \in Reqs :
       /\ (pc'[r] = "input" /\ pc[r] # "input") => pc[r] = "goto"
       /\ (pc'[r] = "button" /\ pc[r] # "button") => pc[r] = "input"
       /\ (pc'[r] = "idle" /\ pc[r] # "idle") => pc[r] = "button"
       /\ (pc'[r] = "await" /\ pc[r] # "await") => pc[r] = "idle"
       /\ (pc'[r] = "extract" /\ pc[r] # "extract") => pc[r] = "await"
       /\ (InputDone(r, FALSE) /\ job[r] = "scrape")
            => /\ outcome'[r] = Thrown(InputNotFound)
               /\ pc'[r] = "closePage"
       /\ (ButtonDone(r, FALSE) /\ job[r] = "scrape")
            => /\ outcome'[r] = Thrown(ButtonNotFound)
               /\ pc'[r] = "closePage"
       /\ (pc[r] \in {"closePage", "closeCtx", "recycle", "bodyDone",
                      "settled", "released"})
            => pc'[r] \notin {"goto", "input", "button", "idle", "await",
                             "extract"}
       /\ (Respond(r) /\ outcome[r].err \in {InputNotFound, ButtonNotFound})
            => /\ sent'.status = 500
               /\ sent'.err = outcome[r].err
               /\ sent'.data = <<>>
               /\ cache' = cache]_vars

\* a scrape whose input was not found has been answered with that error and
\* no record, and another whose button was not found is in its cleanup
C11_Witness ==
  /\ sent.via = "scrape"
  /\ sent.err = InputNotFound
  /\ sent.data = <<>>
  /\ \E r \in Reqs :
       pc[r] \in {"closePage", "closeCtx"} /\ outcome[r] = Thrown(ButtonNotFound)

\* the active token of the seal status, and the field a record's alerts
\* would be listed under
ACTIVO == <<"A","C","T","I","V","O">>
AlertsKey == <<"a","l","e","r","t","s">>
\* the record lists an alert for the label
HasAlertFor(d, label) ==
  Has(d, AlertsKey) /\ \E i \in 1..Len(Get(d, AlertsKey)) :
                          Get(d, AlertsKey)[i] = label

\* C12: a returned record whose "Estado Sello" is not the active token
\* carries an alerts field with an alert for "Estado Sello", and one whose
\* "Estado Sello" is the active token carries no alert for it.
C12_SealAlert ==
  (normStep = "returned" /\ Has(datos, EstadoSello))
    => (HasAlertFor(datos, EstadoSello) <=> Get(datos, EstadoSello) # ACTIVO)

\* C13: with CONCURRENCY > 1, maybeRecycleBrowser never closes the shared
\* browser while another running task holds an open context or page on it, no
\* task gets from getBrowser a handle that is closed or being closed, and no
\* browser is closed twice.
C13_LaunchRecycleExclusive ==
  CONCURRENCY > 1 =>
    /\ \A r \in Reqs :
         (pc[r] = "recycle" /\ closing[r] # NoBrowser)
           => \A s \in Reqs \ {r} :
                ~(tb[s] = closing[r] /\ (ctx[s] = "open" \/ page[s] = "open"))
    /\ \A r \in Reqs :
         (pc[r] = "getBrowser") => browserState[tb[r]] = "live"
    /\ \A r, s \in Reqs :
         (r # s /\ pc[r] = "recycle" /\ pc[s] = "recycle"
            /\ closing[r] # NoBrowser)
           => closing[r] # closing[s]

\* C14: with CONCURRENCY = 1, when fn() is over, after which the finally
\* callback gives the slot back, the close of every context and page the task
\* created has been attempted and no close of the browser is under way; so a
\* task is never inside fn() while another task's workspace is open or a
\* browser is being closed, and at most one browser is launched and not closed.
C14_SlotAfterCleanup ==
  CONCURRENCY = 1 =>
    /\ \A r \in Reqs :
         pc[r] = "bodyDone"
           => /\ ctx[r] # "open" /\ page[r] # "open"
              /\ \A b \in Browsers : browserState[b] # "closing"
    /\ \A r, s \in Reqs :
         (r # s /\ InBody(s))
           => ctx[r] # "open" /\ page[r] # "open" /\ pc[r] # "recycle"
    /\ \A s \in Reqs :
         JustStarted(s) => \A b \in Browsers : browserState[b] # "closing"
    /\ Cardinality(LiveBrowsers) <= 1

\* C15: when the promise of a task settles, the close of every context and
\* page the task created has been attempted, however the task ended.
C15_WorkspaceReleased ==
  [][\A r \in Reqs :
       Settle(r) => ctx[r] # "open" /\ page[r] # "open"]_vars

\* C16: between tasks (no task inside fn()) 0 <= useCount < RESTART_EVERY,
\* and while a browser is shared useCount is the number of tasks that have
\* completed, with success or failure, since it was launched.
C16_UsageCounter ==
  (\A r \in Reqs : ~InBody(r))
    => /\ 0 <= useCount
       /\ useCount < RESTART_EVERY
       /\ sharedBrowser # NoBrowser => useCount = completedSinceLaunch

\* the steps of the finally block of runScrape
CleanupPcs == {"closePage", "closeCtx", "recycle"}

\* C17: a close that rejects during cleanup changes nothing of the task's
\* outcome. Through the finally block the outcome stays the one fn() left
\* its try block with; the promise settles with it and the handler answers
\* with it (the record, or the original error); and a recycle that was due
\* resets the handle and the counter even when the browser's close rejects.
C17_CleanupSwallowed ==
  [][\A r \in Reqs :
       /\ (pc[r] \in CleanupPcs /\ pc'[r] # pc[r])
            => outcome'[r] = outcome[r]
       /\ Settle(r)
            => promise'[r] =
                 (IF outcome[r].kind = "ok" THEN "resolved" ELSE "rejected")
       /\ Respond(r)
            => /\ sent'.data = outcome[r].data
               /\ sent'.err = outcome[r].err
       /\ (pc[r] = "recycle" /\ pc'[r] # pc[r])
            => sharedBrowser' = NoBrowser /\ useCount' = 0]_vars

\* a task extracted a record, the close of its page rejected, and the task
\* goes on to close its context with the record still its outcome
C17_Witness ==
  \E r \in Reqs :
    /\ pc[r] = "closeCtx"
    /\ page[r] = "closeFailed"
    /\ outcome[r].kind = "ok"
    /\ outcome[r].found > 0

\* C19: the record step 6 gives is a fixed point of step 6: applying the
\* canonicalization to it again leaves it as it is.
C19_SelloIdempotent ==
  normStep = "sello" => NormalizeSello(datos) = datos

\* the candidates of step 4 are waited for in their fixed order up to the
\* first that resolves, and the settle pause counts only when none resolved:
\* with a candidate resolved the task is at Extract whatever the pause would
\* have done
WaitInOrder(r) ==
  \A present \in ResultsPresent, pauseOk \in BOOLEAN :
    AwaitDone(r, present, pauseOk)
      => LET w == waitLoop(WaitSelectors, present, NoWait) IN
         /\ w.tried = SubSeq(WaitSelectors, 1, Len(w.tried))
         /\ \A i \in 1..(Len(w.tried) - 1) : w.tried[i] \notin present
         /\ w.okWait <=> w.tried[Len(w.tried)] \in present
         /\ w.okWait => pc'[r] = "extract" /\ okWait'[r]
         /\ (~w.okWait /\ pc'[r] = "extract") => ~okWait'[r] /\ pauseOk

\* C18 as stated: once the button was clicked the task always gets to Extract
\* and returns a record, whatever the waits do; the candidates are waited for
\* in their fixed order and the pause runs only when none resolved.
C18_AlwaysRecord ==
  [][\A r \in Reqs :
       /\ (pc[r] \in {"idle", "await"} /\ pc'[r] # pc[r])
            => pc'[r] \in {"await", "extract"}
       /\ (pc[r] = "extract" /\ pc'[r] # pc[r]) => outcome'[r].kind = "ok"
       /\ WaitInOrder(r)]_vars

\* C18, amended: no timeout of the network-idle wait or of a candidate
\* selector fails the task. The candidates are waited for in their fixed
\* order, the pause runs only when none resolved, and the task then gets to
\* Extract unless that pause itself rejects, which fails the task with the
\* automation error; the task returns a record whenever page.evaluate
\* resolves.
C18_SoftWait ==
  [][\A r \in Reqs :
       /\ (pc[r] = "idle" /\ pc'[r] # pc[r])
            => pc'[r] = "await" /\ outcome'[r] = outcome[r]
       /\ WaitInOrder(r)
       /\ \A present \in ResultsPresent, pauseOk \in BOOLEAN :
            AwaitDone(r, present, pauseOk)
              => IF present # {} \/ pauseOk
                 THEN pc'[r] = "extract" /\ outcome'[r] = outcome[r]
                 ELSE /\ pc'[r] = "closePage"
                      /\ outcome'[r] = Thrown(AutomationError)
       /\ \A raw \in Pages :
            (ExtractDone(r, TRUE, raw) /\ job[r] = "scrape")
              => /\ outcome'[r].kind = "ok"
                 /\ Has(outcome'[r].data, PatenteKey)]_vars

\* every candidate timed out, the pause ran, and the task is at Extract
C18_Witness ==
  \E r \in Reqs : pc[r] = "extract" /\ ~okWait[r]

\* C20: after every step, a task waits in the queue only while every slot is
\* taken (queue non-empty implies active = CONCURRENCY); the queue holds
\* exactly the submitted tasks not yet started, each once; and a task is
\* started only out of the queue or at its submission, so at most once.
C20_WorkConserving ==
  [][/\ Len(queue') > 0 => active' = CONCURRENCY
     /\ \A i, j \in 1..Len(queue') : queue'[i] = queue'[j] => i = j
     /\ \A r \in Reqs :
          /\ pc'[r] = "queued" <=> \E i \in 1..Len(queue') : queue'[i] = r
          /\ (pc'[r] = "queued" /\ pc[r] # "queued") => pc[r] = "none"
          /\ (JustStarted(r)' /\ ~JustStarted(r))
               => pc[r] \in {"none", "queued"}]_vars

\* with two slots: one task is over but has not given its slot back, the
\* other is running, and a third waits
C20_Witness ==
  /\ CONCURRENCY = 2
  /\ active = 2
  /\ Len(queue) = 1
  /\ \E r, s \in Reqs : pc[r] = "settled" /\ InBody(s)

====
